---- MODULE Spec2Model ----
(***************************************************************************)
(* Model of the knowledge package of sufe-ai-bot: KnowledgeService         *)
(* (document loading, parsing, lookup) and VectorKnowledgeService          *)
(* (TF-IDF vocabulary, document vectors, cosine-ranked search).            *)
(*                                                                         *)
(* A Go string is a sequence of one-character strings.  A float is a       *)
(* fixed-point integer in thousandths (IDF weights, vector entries and     *)
(* cosine scores), so float32 rounding is not represented.                 *)
(***************************************************************************)
EXTENDS Integers, Sequences, FiniteSets, TLC

(***************************************************************************)
(* Bounds of the model.                                                    *)
(***************************************************************************)
MaxDim == 2        \* vectors handed to CosineSimilarity have at most this many entries
MaxLines == 3      \* texts handed to parseDocument have at most this many lines
MaxWords == 3      \* documents handed to the scoring have at most this many words
MaxLoads == 2      \* load calls (LoadKnowledgeBase / RefreshKnowledgeBase) started in one behaviour
MaxFsOps == 1      \* changes made to the files of the directories in one behaviour
MaxListeners == 2  \* listeners registered with the DynamicConfigService in one behaviour
CacheMaxSize == 2  \* cache.max_size of the configuration
CacheTTL == 2      \* cache.ttl of the configuration, in units of time
MaxTime == 3       \* the clock of the cache stops here

(***************************************************************************)
(* Strings.                                                                *)
(***************************************************************************)
Upper == <<"A","B","C","D","E","F","G","H","I","J","K","L","M",
           "N","O","P","Q","R","S","T","U","V","W","X","Y","Z">>
Lower == <<"a","b","c","d","e","f","g","h","i","j","k","l","m",
           "n","o","p","q","r","s","t","u","v","w","x","y","z">>
Digits == {"0","1","2","3","4","5","6","7","8","9"}

\* the lower-case letter of each upper-case letter
LowerOf == [c \in {Upper[i] : i \in 1..26} |-> Lower[CHOOSE i \in 1..26 : Upper[i] = c]]

\* strings.ToLower on one character
LowerChar(c) == IF c \in DOMAIN LowerOf THEN LowerOf[c] ELSE c

\* strings.ToLower
ToLower(s) == [i \in 1..Len(s) |-> LowerChar(s[i])]

\* strings.HasSuffix
HasSuffix(s, suf) ==
    /\ Len(s) >= Len(suf)
    /\ SubSeq(s, Len(s) - Len(suf) + 1, Len(s)) = suf

\* strings.HasPrefix
HasPrefix(s, pre) ==
    /\ Len(s) >= Len(pre)
    /\ SubSeq(s, 1, Len(pre)) = pre

\* the characters unicode.IsSpace accepts, among those the model uses
SpaceChars == {" ", "\n", "\t", "\r"}

\* strings.TrimSpace
TrimSpace(s) ==
    LET idx == {i \in 1..Len(s) : s[i] \notin SpaceChars}
    IN  IF idx = {} THEN <<>>
        ELSE SubSeq(s, CHOOSE i \in idx : \A j \in idx : i <= j,
                       CHOOSE i \in idx : \A j \in idx : i >= j)

\* strings.ReplaceAll for a one-character pattern
ReplaceChar(s, old, new) == [i \in 1..Len(s) |-> IF s[i] = old THEN new ELSE s[i]]

\* strings.Split(s, sep) for a one-character separator: the pieces between
\* separators, empty pieces included; from position i on, one step for each
\* piece, cur being the part of the piece before i
RECURSIVE SplitFrom(_, _, _, _)
SplitFrom(s, sep, i, cur) ==
    LET stop == {j \in i..Len(s) : s[j] = sep}
    IN  IF stop = {} THEN <<cur \o SubSeq(s, i, Len(s))>>
        ELSE LET e == CHOOSE j \in stop : \A k \in stop : j <= k
             IN  <<cur \o SubSeq(s, i, e - 1)>> \o SplitFrom(s, sep, e + 1, <<>>)

Split(s, sep) == SplitFrom(s, sep, 1, <<>>)

\* strings.Fields: the maximal runs of non-space characters; from position
\* i on, one step for each run and each space, cur being the part of the run
\* before i
RECURSIVE FieldsFrom(_, _, _)
FieldsFrom(s, i, cur) ==
    IF i > Len(s) THEN (IF cur = <<>> THEN <<>> ELSE <<cur>>)
    ELSE IF s[i] \in SpaceChars
         THEN (IF cur = <<>> THEN <<>> ELSE <<cur>>) \o FieldsFrom(s, i + 1, <<>>)
         ELSE LET stop == {j \in i..Len(s) : s[j] \in SpaceChars}
                  e    == IF stop = {} THEN Len(s) + 1
                          ELSE CHOOSE j \in stop : \A k \in stop : j <= k
              IN  <<cur \o SubSeq(s, i, e - 1)>> \o FieldsFrom(s, e + 1, <<>>)

Fields(s) == FieldsFrom(s, 1, <<>>)

\* the index of the last occurrence of c in s, 0 when there is none
LastIndex(s, c) ==
    LET idx == {i \in 1..Len(s) : s[i] = c}
    IN  IF idx = {} THEN 0 ELSE CHOOSE i \in idx : \A j \in idx : i >= j

\* filepath.Ext: the suffix beginning at the final dot of the last path element
Ext(path) ==
    LET dot == LastIndex(path, ".")
        sl  == LastIndex(path, "/")
    IN  IF dot > sl THEN SubSeq(path, dot, Len(path)) ELSE <<>>

\* filepath.Base: the last path element
Base(path) == SubSeq(path, LastIndex(path, "/") + 1, Len(path))

\* strings.TrimSuffix
TrimSuffix(s, suf) ==
    IF HasSuffix(s, suf) THEN SubSeq(s, 1, Len(s) - Len(suf)) ELSE s

\* filepath.Rel(base, path) for a path below base, or below a sibling of base
Rel(base, path) ==
    IF HasPrefix(path, base \o <<"/">>)
    THEN SubSeq(path, Len(base) + 2, Len(path))
    ELSE <<".", ".", "/">> \o path

(***************************************************************************)
(* Tokenizer (SimpleEmbeddingService.tokenize, isNumber).                  *)
(***************************************************************************)
\* the characters the strings.NewReplacer of tokenize turns into a space
Punctuation == {".", ",", ";", ":", "!", "?", "(", ")", "[", "]", "{", "}",
                "\"", "'", "-", "_", "\n", "\t", "\r"}

\* the test that looks at the first character only
isNumberFirst(s) == s[1] \in Digits

\* isNumber: every character is a decimal digit
isNumber(s) == \A i \in 1..Len(s) : s[i] \in Digits

\* the filter with the length test set too high
KeepWordLong(word) == Len(word) > 4 /\ ~isNumber(word)

\* the filter of tokenize: words longer than 2 that are not numbers
KeepWord(word) == Len(word) > 2 /\ ~isNumber(word)

\* tokenize: lowercase, punctuation to spaces, split on white space, filter
tokenize(text) ==
    LET low   == ToLower(text)
        rep   == [i \in 1..Len(low) |-> IF low[i] \in Punctuation THEN " " ELSE low[i]]
        words == Fields(rep)
    IN  SelectSeq(words, KeepWord)

(***************************************************************************)
(* Documents (Document, Section, parseDocument, loadDocument).             *)
(***************************************************************************)
\* the number of '#' characters at the start of a line
RECURSIVE HashRun(_, _)
HashRun(s, i) == IF i <= Len(s) /\ s[i] = "#" THEN 1 + HashRun(s, i + 1) ELSE 0

\* the loop of parseDocument from line i on; cur holds the section being
\* filled (a sequence of zero or one Section), title the document title
RECURSIVE ParseLines(_, _, _, _, _)
ParseLines(lines, i, title, sections, cur) ==
    IF i > Len(lines)
    THEN [Title |-> title, Sections |-> sections \o cur]
    ELSE
      LET line    == lines[i]
          trimmed == TrimSpace(line)
      IN  IF HasPrefix(trimmed, <<"#">>)
          THEN LET level == HashRun(trimmed, 1)
               IN  IF level = Len(trimmed)
                   THEN \* the loop over the characters ends without a section
                        ParseLines(lines, i + 1, title, sections, cur)
                   ELSE LET headerText == TrimSpace(SubSeq(trimmed, level + 1, Len(trimmed)))
                            newTitle   == IF level = 1 /\ title = <<>> THEN headerText ELSE title
                        IN  ParseLines(lines, i + 1, newTitle, sections \o cur,
                                       <<[Title |-> headerText, Level |-> level, Content |-> <<>>]>>)
          ELSE IF cur # <<>>
          THEN LET c  == cur[1].Content
                   nc == IF c # <<>> THEN c \o <<"\n">> \o line ELSE line
               IN  ParseLines(lines, i + 1, title, sections,
                              <<[cur[1] EXCEPT !.Content = nc]>>)
          ELSE ParseLines(lines, i + 1, title, sections, cur)

\* the title used when no level-1 header was found: the file name without
\* extension, '_' and '-' replaced by spaces
FallbackTitle(path) ==
    ReplaceChar(ReplaceChar(TrimSuffix(Base(path), Ext(path)), "_", " "), "-", " ")

\* parseDocument: title and sections of a document
parseDocument(doc) ==
    LET r == ParseLines(Split(doc.Content, "\n"), 1, <<>>, <<>>, <<>>)
    IN  [doc EXCEPT !.Sections = r.Sections,
                    !.Title = IF r.Title = <<>> THEN FallbackTitle(doc.FilePath) ELSE r.Title]

\* the document ID loadDocument derives from the path: relative to the
\* knowledge directory, extension removed, separators replaced by '_'
DocID(kdir, path) ==
    LET relPath == Rel(kdir, path)
    IN  ReplaceChar(TrimSuffix(relPath, Ext(relPath)), "/", "_")

\* loadDocument for a file that could be read: file is [content, mtime]
loadDocument(kdir, path, file) ==
    parseDocument([ID |-> DocID(kdir, path), FilePath |-> path,
                   Content |-> file.content, ModTime |-> file.mtime,
                   Title |-> <<>>, Sections |-> <<>>])

\* the test of the WalkDir callback: only paths ending in .md are loaded
IsKnowledgeFile(path) == HasSuffix(ToLower(path), <<".", "m", "d">>)

(***************************************************************************)
(* TF-IDF (BuildVocabulary, GetEmbedding, CosineSimilarity).               *)
(* Numbers are thousandths: 693 stands for ln 2.                           *)
(***************************************************************************)
\* 1000 * ln(n), rounded, for the document counts the model reaches
LnTable == <<0, 693, 1099, 1386, 1609, 1792, 1946, 2079>>

\* a smoothed weight, ln((totalDocs + 1) / freq)
LogRatioSmooth(totalDocs, freq) == LnTable[totalDocs + 1] - LnTable[freq]

\* math.Log(float64(totalDocs) / float64(freq)) in thousandths
LogRatio(totalDocs, freq) == LnTable[totalDocs] - LnTable[freq]

\* the value of a Go map at a key, zero when the key is absent
MapGet(m, k) == IF k \in DOMAIN m THEN m[k] ELSE 0

\* m[k] = v
MapPut(m, k, v) == [x \in (DOMAIN m) \cup {k} |-> IF x = k THEN v ELSE m[x]]

EmptyMap == [x \in {} |-> 0]

\* the inner loop without the seen set: every occurrence of a token adds
\* to its document frequency
RECURSIVE ScanTokensEvery(_, _, _)
ScanTokensEvery(tokens, i, st) ==
    IF i > Len(tokens) THEN st
    ELSE LET token == tokens[i]
             st1   == IF token \notin DOMAIN st.vocabulary
                      THEN [st EXCEPT !.vocabulary = MapPut(st.vocabulary, token, st.vocabIndex),
                                      !.vocabIndex = st.vocabIndex + 1]
                      ELSE st
             st2   == [st1 EXCEPT !.df = MapPut(st1.df, token, MapGet(st1.df, token) + 1)]
         IN  ScanTokensEvery(tokens, i + 1, st2)

\* the inner loop of BuildVocabulary over the tokens of one document, from
\* token i on: st = [vocabulary, vocabIndex, df, seen]
RECURSIVE ScanTokens(_, _, _)
ScanTokens(tokens, i, st) ==
    IF i > Len(tokens) THEN st
    ELSE LET token == tokens[i]
             isNew == token \notin DOMAIN st.vocabulary
             st1   == IF isNew
                      THEN [st EXCEPT !.vocabulary = MapPut(st.vocabulary, token, st.vocabIndex),
                                      !.vocabIndex = st.vocabIndex + 1]
                      ELSE st
             st2   == IF token \notin st1.seen
                      THEN [st1 EXCEPT !.df = MapPut(st1.df, token, MapGet(st1.df, token) + 1),
                                       !.seen = st1.seen \cup {token}]
                      ELSE st1
         IN  ScanTokens(tokens, i + 1, st2)

\* the IDF loop of BuildVocabulary: one entry for every token of df
IdfOf(df, totalDocs) == [token \in DOMAIN df |-> LogRatio(totalDocs, df[token])]

\* the number of occurrences of token in tokens
TermCount(tokens, token) == Cardinality({i \in 1..Len(tokens) : tokens[i] = token})

\* whether GetEmbedding writes past the end of its vector: an index of the
\* vocabulary that is not below the size of the vocabulary
EmbeddingPanics(vocabulary, text) ==
    LET tokens == tokenize(text)
        n      == Cardinality(DOMAIN vocabulary)
    IN  \E i \in 1..Len(tokens) :
            /\ tokens[i] \in DOMAIN vocabulary
            /\ vocabulary[tokens[i]] >= n

\* the entry that does not look at the text: every token of the vocabulary
\* leaves its idf
EntryValuesAll(vocabulary, idf, tokens, idx) ==
    LET ts == {t \in DOMAIN vocabulary : vocabulary[t] = idx}
    IN  IF ts = {} THEN {0} ELSE {MapGet(idf, t) : t \in ts}

\* the values GetEmbedding can leave in vector[idx]: 0 when no token of the
\* text has that index; one value per token of the text with that index (the
\* tf map is ranged over in no fixed order, the last write stays)
EntryValues(vocabulary, idf, tokens, idx) ==
    LET ts == {t \in DOMAIN vocabulary :
                  vocabulary[t] = idx /\ TermCount(tokens, t) > 0}
    IN  IF ts = {} THEN {0}
        ELSE {(TermCount(tokens, t) * MapGet(idf, t)) \div Len(tokens) : t \in ts}

\* the vectors GetEmbedding can return for text, as sequences indexed from 1
\* (entry idx + 1 is vector[idx]); entries are tf * idf in thousandths.
\* One vector when no two tokens of the vocabulary share an index.
RECURSIVE EmbeddingsUpTo(_, _, _, _)
EmbeddingsUpTo(vocabulary, idf, tokens, n) ==
    IF n = 0 THEN {<<>>}
    ELSE {Append(v, x) : v \in EmbeddingsUpTo(vocabulary, idf, tokens, n - 1),
                         x \in EntryValues(vocabulary, idf, tokens, n - 1)}

Embeddings(vocabulary, idf, text) ==
    EmbeddingsUpTo(vocabulary, idf, tokenize(text), Cardinality(DOMAIN vocabulary))

\* GetEmbedding: the TF-IDF vector of text
GetEmbedding(vocabulary, idf, text) ==
    CHOOSE v \in Embeddings(vocabulary, idf, text) : TRUE

\* the integer square root
RECURSIVE SqrtSearch(_, _, _)
SqrtSearch(n, lo, hi) ==
    IF lo >= hi THEN lo
    ELSE LET mid == (lo + hi + 1) \div 2
         IN  IF mid * mid <= n THEN SqrtSearch(n, mid, hi) ELSE SqrtSearch(n, lo, mid - 1)

Sqrt(n) == SqrtSearch(n, 0, 46340)

\* the sum that stops one entry short of the end of the vectors
RECURSIVE DotFromShort(_, _, _)
DotFromShort(a, b, i) == IF i >= Len(a) THEN 0 ELSE a[i] * b[i] + DotFromShort(a, b, i + 1)

\* the sums of the loop of CosineSimilarity: a[i] * b[i] from entry i on
RECURSIVE DotFrom(_, _, _)
DotFrom(a, b, i) == IF i > Len(a) THEN 0 ELSE a[i] * b[i] + DotFrom(a, b, i + 1)

\* the quotient without the test for a norm of 0: 0/0 is NaN, here -1
CosineSimilarityNaN(a, b) ==
    IF Len(a) # Len(b) THEN 0
    ELSE LET dotProduct == DotFrom(a, b, 1)
             normA      == DotFrom(a, a, 1)
             normB      == DotFrom(b, b, 1)
         IN  IF normA = 0 \/ normB = 0 THEN -1
             ELSE (dotProduct * 1000) \div (Sqrt(normA) * Sqrt(normB))

\* the quotient with the squared norm of b for the product of the norms
CosineSimilaritySquare(a, b) ==
    IF Len(a) # Len(b) THEN 0
    ELSE LET dotProduct == DotFrom(a, b, 1)
             normA      == DotFrom(a, a, 1)
             normB      == DotFrom(b, b, 1)
         IN  IF normA = 0 \/ normB = 0 THEN 0
             ELSE (dotProduct * 1000) \div normB

\* CosineSimilarity in thousandths: 0 for vectors of different lengths and
\* for a vector of norm 0
CosineSimilarity(a, b) ==
    IF Len(a) # Len(b) THEN 0
    ELSE LET dotProduct == DotFrom(a, b, 1)
             normA      == DotFrom(a, a, 1)
             normB      == DotFrom(b, b, 1)
         IN  IF normA = 0 \/ normB = 0 THEN 0
             ELSE (dotProduct * 1000) \div (Sqrt(normA) * Sqrt(normB))

\* the relevance threshold of VectorSearch, 0.1
Threshold == 100

(***************************************************************************)
(* The file system the service reads: directories and files.               *)
(***************************************************************************)
KbDir   == <<"k","b">>                  \* "kb": holds a.md and b.md
AltDir  == <<"a","l","t">>              \* "alt": holds c.md and n.txt
RoDir   == <<"r","o","/","k","b">>      \* "ro/kb": missing, below a read-only parent
PrivDir == <<"p","r","i","v">>          \* "priv": exists, cannot be listed
EdgeDir == <<"e","d","g","e">>          \* "edge": holds e1.md and e2.md
NewDir  == <<"n","e","w">>              \* "new": missing, os.MkdirAll creates it empty
Dirs    == {KbDir, AltDir, RoDir, PrivDir, EdgeDir, NewDir}

TextAlpha == <<"#"," ","A","l","p","h","a","\n","c","a","t","s"," ","a","r","e"," ","g","r","e","a","t">>
TextBeta  == <<"#"," ","B","e","t","a","\n","d","o","g","s"," ","a","r","e"," ","g","r","e","a","t">>
TextGamma == <<"#"," ","G","a","m","m","a","\n","c","a","t","s"," ","a","n","d"," ","d","o","g","s">>
TextNotes == <<"#"," ","N","o","t","e","s","\n","d","o","g","s"," ","n","a","p">>

PathA == <<"k","b","/","a",".","m","d">>
PathB == <<"k","b","/","b",".","m","d">>
PathC == <<"a","l","t","/","c",".","m","d">>
PathN == <<"a","l","t","/","n",".","t","x","t">>
PathK == <<"k","b","/","c",".","m","d">>

\* a file: content, modification time, whether os.ReadFile succeeds
File(content, mtime) == [content |-> content, mtime |-> mtime, readable |-> TRUE]

\* the files of "edge", two documents without headings, one word per line:
\*   e1.md  "cats" once, "dogs" 9 times, "nap" 3 times, "sun" 3 times, "the" 5 times
\*   e2.md  "the"
\* "the" is in both (weight 0), the other words are in e1.md only and share
\* one weight, so the cosine of e1.md and the query "cats" is
\* 1 / sqrt(1 + 81 + 9 + 9) = 0.1 and that of e1.md and "dogs" is 0.9
EdgeFiles ==
    LET Repeat(w, n) == [i \in 1..(n * (Len(w) + 1)) |->
                            IF i % (Len(w) + 1) = 0 THEN "\n" ELSE w[i % (Len(w) + 1)]]
        cats == <<"c","a","t","s">>
        dogs == <<"d","o","g","s">>
        nap  == <<"n","a","p">>
        sun  == <<"s","u","n">>
        the  == <<"t","h","e">>
        md   == <<".","m","d">>
        e1   == EdgeDir \o <<"/","e","1">> \o md
        e2   == EdgeDir \o <<"/","e","2">> \o md
    IN  [path \in {e1, e2} |->
            IF path = e1
            THEN File(Repeat(cats, 1) \o Repeat(dogs, 9) \o Repeat(nap, 3)
                        \o Repeat(sun, 3) \o Repeat(the, 4) \o the, 0)
            ELSE File(the, 0)]

InitFiles ==
    [path \in {PathA, PathB, PathC, PathN} \cup DOMAIN EdgeFiles |->
        IF path = PathA THEN File(TextAlpha, 0)
        ELSE IF path = PathB THEN File(TextBeta, 0)
        ELSE IF path = PathC THEN File(TextGamma, 0)
        ELSE IF path = PathN THEN File(TextNotes, 0)
        ELSE EdgeFiles[path]]

\* what the environment may write, and where
WritePaths == {PathA, PathK}
WriteTexts == {TextGamma}

\* os.MkdirAll(dir) fails: the empty path, or a path that cannot be created
MkdirFails(dir) == dir = <<>> \/ dir = RoDir

\* filepath.WalkDir hands the callback an error for the root
WalkFails(dir) == dir = PrivDir

\* the characters in ASCII order, the path separator first: comparing paths
\* character by character in this order is WalkDir's lexical order
Ascii == <<"/", "\t", "\n", "\r", " ", "!", "\"", "#", "'", "(", ")", ",", "-", ".",
           "0","1","2","3","4","5","6","7","8","9", ":", ";", "?",
           "A","B","C","D","E","F","G","H","I","J","K","L","M",
           "N","O","P","Q","R","S","T","U","V","W","X","Y","Z", "[", "]", "_",
           "a","b","c","d","e","f","g","h","i","j","k","l","m",
           "n","o","p","q","r","s","t","u","v","w","x","y","z", "{", "}">>

Rank(c) == CHOOSE i \in 1..Len(Ascii) : Ascii[i] = c

RECURSIVE LessFrom(_, _, _)
LessFrom(a, b, i) ==
    IF i > Len(a) THEN i <= Len(b)
    ELSE IF i > Len(b) THEN FALSE
    ELSE IF a[i] = b[i] THEN LessFrom(a, b, i + 1)
    ELSE Rank(a[i]) < Rank(b[i])

PathLess(a, b) == LessFrom(a, b, 1)

\* the elements of a finite set of paths in walk order
RECURSIVE SortPaths(_)
SortPaths(S) ==
    IF S = {} THEN <<>>
    ELSE LET m == CHOOSE x \in S : \A y \in S \ {x} : PathLess(x, y)
         IN  <<m>> \o SortPaths(S \ {m})

\* the files WalkDir visits below dir, in order
WalkPaths(fs, dir) ==
    SortPaths({path \in DOMAIN fs : HasPrefix(path, dir \o <<"/">>)})

\* the walk that ends at the first file loadDocument cannot read
RECURSIVE WalkFromAbort(_, _, _, _, _)
WalkFromAbort(fs, kdir, paths, i, docs) ==
    IF i > Len(paths) THEN docs
    ELSE LET path == paths[i]
         IN  IF ~IsKnowledgeFile(path)
             THEN WalkFromAbort(fs, kdir, paths, i + 1, docs)
             ELSE IF ~fs[path].readable THEN docs
             ELSE LET doc == loadDocument(kdir, path, fs[path])
                  IN  WalkFromAbort(fs, kdir, paths, i + 1, MapPut(docs, doc.ID, doc))

\* the WalkDir callback applied to the visited paths from position i on:
\* the documents map after the walk (kdir is s.knowledgeDir)
RECURSIVE WalkFrom(_, _, _, _, _)
WalkFrom(fs, kdir, paths, i, docs) ==
    IF i > Len(paths) THEN docs
    ELSE LET path == paths[i]
         IN  IF ~IsKnowledgeFile(path) \/ ~fs[path].readable
             THEN WalkFrom(fs, kdir, paths, i + 1, docs)
             ELSE LET doc == loadDocument(kdir, path, fs[path])
                  IN  WalkFrom(fs, kdir, paths, i + 1, MapPut(docs, doc.ID, doc))

\* the documents a walk of dir leaves in s.documents, started on the
\* cleared map
WalkDir(fs, kdir, dir) == WalkFrom(fs, kdir, WalkPaths(fs, dir), 1, EmptyMap)

\* the values of a map in every order a range over the map can produce
RECURSIVE Orders(_)
Orders(S) ==
    IF S = {} THEN {<<>>}
    ELSE UNION {{<<x>> \o rest : rest \in Orders(S \ {x})} : x \in S}

MapValues(m) == {m[k] : k \in DOMAIN m}

\* the body of the loop of BuildVocabulary for one document: its tokens,
\* with an empty seen set
ScanDoc(doc, vocab, vocabIndex, df) ==
    ScanTokens(tokenize(doc.Content), 1,
               [vocabulary |-> vocab, vocabIndex |-> vocabIndex, df |-> df, seen |-> {}])

\* the loop of BuildVocabulary over the documents from position i on
RECURSIVE ScanDocs(_, _, _)
ScanDocs(docs, i, st) ==
    IF i > Len(docs) THEN st
    ELSE ScanDocs(docs, i + 1, ScanDoc(docs[i], st.vocabulary, st.vocabIndex, st.df))

\* BuildVocabulary(documents) run alone: the vocabulary and the idf table
BuildVocabulary(docs) ==
    LET st == ScanDocs(docs, 1, [vocabulary |-> EmptyMap, vocabIndex |-> 0,
                                 df |-> EmptyMap, seen |-> {}])
    IN  [vocabulary |-> st.vocabulary, idf |-> IdfOf(st.df, Len(docs))]

\* VectorKnowledgeService.LoadKnowledgeBase after the documents are loaded,
\* run alone on docs: vocabulary, idf and the vector of every document
BuildIndex(docs) ==
    LET b == BuildVocabulary(docs)
    IN  [vocabulary |-> b.vocabulary, idf |-> b.idf,
         docVectors |-> [id \in {docs[i].ID : i \in 1..Len(docs)} |->
                            LET doc == CHOOSE d \in {docs[i] : i \in 1..Len(docs)} : d.ID = id
                            IN  GetEmbedding(b.vocabulary, b.idf, doc.Content)]]

(***************************************************************************)
(* The service: one VectorKnowledgeService shared by the goroutines that   *)
(* call it.                                                                *)
(***************************************************************************)
Procs == {"p1", "p2"}      \* the calling goroutines
SeqProc == "p1"            \* the caller of the single-goroutine specification
None == "none"

QueryCats  == <<"c","a","t","s">>
QueryGreat == <<"g","r","e","a","t">>
QueryDogs  == <<"d","o","g","s">>
Queries == {QueryCats, QueryGreat, QueryDogs, <<>>}
Limits  == {-1, 0, 1, 5}
\* the arguments of VectorSearch: every query with the limits above 0, one
\* query with the others
SearchArgs == {a \in Queries \X Limits : a[2] > 0 \/ a[1] = QueryCats}
\* the arguments of SearchDocuments: a word, a letter that the titles and
\* the contents hold, the empty query with limit 1, the word with every limit
KeywordArgs == {a \in {QueryCats, <<"a">>, <<>>} \X Limits : a[2] = 1 \/ a[1] = QueryCats}
IdA == <<"a">>
IdB == <<"b">>
LookupIds == {IdA, <<"z">>}

VARIABLES
    files,          \* the file system: path -> file
    fsOps,          \* the number of changes made to the file system
    knowledgeDir,   \* KnowledgeService.knowledgeDir
    documents,      \* KnowledgeService.documents: ID -> Document
    rwWriter,       \* documentsRW: the goroutine inside Lock()..Unlock(), or None
    rwReaders,      \* documentsRW: the goroutines holding the read lock
    rwBlocked,      \* documentsRW: the goroutines blocked in RLock()
    vocabulary,     \* SimpleEmbeddingService.vocabulary: token -> index
    idf,            \* SimpleEmbeddingService.idf: token -> weight
    docVectors,     \* VectorKnowledgeService.docVectors: ID -> vector
    genVocab,       \* history: the load call whose BuildVocabulary made the vocabulary map
    genVec,         \* history: ID -> the load call that stored the vector
    loads,          \* the number of load calls started
    pc,             \* the position of each goroutine inside its call
    op,             \* the call each goroutine makes: name and arguments
    loc,            \* the local variables of the call
    ret,            \* what the last finished call of each goroutine returned
    crashed,        \* the Go runtime stopped the program
    arg,            \* a function called on its own: its name and arguments
    out,            \* a function called on its own: what it returned
    grPc,           \* GetResponse: the position of the call
    attempt,        \* GetResponse: the loop variable attempt
    outcomes,       \* history: how each attempt of the call ended
    waits,          \* history: the seconds of each backoff wait that ran out
    result,         \* GetResponse: what the call returned
    ctxDone,        \* GetResponse: the context of the call is cancelled
    cfgPc,          \* DynamicConfigService: the position of each goroutine
    muReaders,      \* DynamicConfigService.mu: the number of read locks held
    muWriter,       \* DynamicConfigService.mu: the goroutine inside Lock()..Unlock(), or None
    listeners,      \* DynamicConfigService.listeners: its length
    items,          \* Cache.cache: key -> the time the entry expires
    now             \* the clock of the cache, in units of time

vars == <<files, fsOps, knowledgeDir, documents, rwWriter, rwReaders, rwBlocked,
          vocabulary, idf, docVectors, genVocab, genVec, loads, pc, op, loc, ret,
          crashed, arg, out,
          grPc, attempt, outcomes, waits, result, ctxDone,
          cfgPc, muReaders, muWriter, listeners, items, now>>

index == <<documents, vocabulary, idf, docVectors>>
lock  == <<rwWriter, rwReaders, rwBlocked>>
hist  == <<genVocab, genVec>>
fsys  == <<files, fsOps>>
fnio  == <<arg, out>>
retry == <<grPc, attempt, outcomes, waits, result, ctxDone>>
dconf == <<cfgPc, muReaders, muWriter, listeners>>
cache == <<items, now>>
svc   == <<retry, dconf, cache>>
kb    == <<fsys, knowledgeDir, index, lock, hist, loads, pc, op, loc, ret, crashed, fnio>>

NoOp  == [name |-> "", dir |-> <<>>, query |-> <<>>, limit |-> 0, id |-> <<>>]
NoLoc == [docs |-> <<>>, i |-> 0, df |-> EmptyMap, vocabIndex |-> 0,
          qv |-> <<>>, qGen |-> 0, gen |-> 0]
NoRet == [name |-> "", err |-> "", docs |-> <<>>, scores |-> <<>>,
          qGen |-> 0, vecGens |-> {}]
NoArg == [fn |-> "", text |-> <<>>, a |-> <<>>, b |-> <<>>, docs |-> <<>>]
NoOut == [done |-> FALSE, score |-> 0, scores |-> <<>>, title |-> <<>>, sections |-> <<>>,
          tokens |-> <<>>, ids |-> {}]

\* the error values of the calls
ErrNil      == "nil"
ErrMkdir    == "failed to create knowledge directory"
ErrWalk     == "failed to walk knowledge directory"
ErrNotFound == "document not found"
\* the call ended in a run-time panic: results[:limit] with limit < 0
ErrPanic    == "panic: slice bounds out of range"

\* the goroutines that call the DynamicConfigService: two that change an
\* endpoint (AddEndpoint, UpdateEndpoint, AddModelToEndpoint end in
\* notifyConfigChange), two that register a listener
Notifiers  == {"n1", "n2"}
Registrars == {"r1", "r2"}

\* the AI service before a call, NewDynamicConfigService, NewCache with the
\* cache enabled
SvcInit ==
    /\ grPc = "idle"
    /\ attempt = 0
    /\ outcomes = <<>>
    /\ waits = <<>>
    /\ result = ""
    /\ ctxDone = FALSE
    /\ cfgPc = [g \in Notifiers \cup Registrars |-> "idle"]
    /\ muReaders = 0
    /\ muWriter = None
    /\ listeners = 0
    /\ items = EmptyMap
    /\ now = 0

Init ==
    /\ files = InitFiles
    /\ fsOps = 0
    /\ knowledgeDir = <<>>
    /\ documents = EmptyMap
    /\ rwWriter = None
    /\ rwReaders = {}
    /\ rwBlocked = {}
    /\ vocabulary = EmptyMap
    /\ idf = EmptyMap
    /\ docVectors = EmptyMap
    /\ genVocab = 0
    /\ genVec = EmptyMap
    /\ loads = 0
    /\ pc = [p \in Procs |-> "idle"]
    /\ op = [p \in Procs |-> NoOp]
    /\ loc = [p \in Procs |-> NoLoc]
    /\ ret = [p \in Procs |-> NoRet]
    /\ crashed = FALSE
    /\ arg = NoArg
    /\ out = NoOut
    /\ SvcInit

(***************************************************************************)
(* sync.RWMutex: a goroutine that called Lock() keeps later RLock() calls  *)
(* waiting and enters when the readers have left; Unlock() admits the      *)
(* readers that were waiting.                                              *)
(***************************************************************************)
\* documentsRW.Unlock() by the writer: the blocked readers hold the read
\* lock at once; pc1 is the position function to update
Unlock(pc1) ==
    /\ rwWriter' = None
    /\ rwReaders' = rwBlocked
    /\ rwBlocked' = {}
    /\ pc' = [q \in Procs |-> IF q \in rwBlocked THEN "read" ELSE pc1[q]]

\* documentsRW.RUnlock()
RUnlock(p) ==
    /\ rwReaders' = rwReaders \ {p}
    /\ UNCHANGED <<rwWriter, rwBlocked, fnio, svc>>

\* documentsRW.RLock(): enter, or wait behind the writer
RLock(p) ==
    /\ ~crashed
    /\ pc[p] = "rlock"
    /\ IF rwWriter = None
       THEN /\ rwReaders' = rwReaders \cup {p}
            /\ pc' = [pc EXCEPT ![p] = "read"]
            /\ UNCHANGED rwBlocked
       ELSE /\ rwBlocked' = rwBlocked \cup {p}
            /\ pc' = [pc EXCEPT ![p] = "rwait"]
            /\ UNCHANGED rwReaders
    /\ UNCHANGED <<rwWriter, fsys, knowledgeDir, index, hist, loads, op, loc, ret, crashed, fnio, svc>>

(***************************************************************************)
(* LoadKnowledgeBase and RefreshKnowledgeBase.                             *)
(***************************************************************************)
\* KnowledgeService.LoadKnowledgeBase up to os.MkdirAll: the directory is
\* remembered, then created; an error returns
BeginLoad(p, name, dir) ==
    /\ ~crashed
    /\ pc[p] = "idle"
    /\ loads < MaxLoads
    /\ loads' = loads + 1
    /\ knowledgeDir' = dir
    /\ op' = [op EXCEPT ![p] = [NoOp EXCEPT !.name = name, !.dir = dir]]
    /\ IF MkdirFails(dir)
       THEN /\ ret' = [ret EXCEPT ![p] = [NoRet EXCEPT !.name = name, !.err = ErrMkdir]]
            /\ loc' = [loc EXCEPT ![p] = NoLoc]
            /\ pc' = pc
       ELSE /\ ret' = [ret EXCEPT ![p] = NoRet]
            /\ loc' = [loc EXCEPT ![p] = [NoLoc EXCEPT !.gen = loads + 1]]
            /\ pc' = [pc EXCEPT ![p] = "lock"]
    /\ UNCHANGED <<fsys, index, lock, hist, crashed, fnio, svc>>

\* VectorKnowledgeService.LoadKnowledgeBase(ctx, dir) is called
StartLoad(p, dir) == BeginLoad(p, "Load", dir)

\* RefreshKnowledgeBase(ctx): the method of the embedded KnowledgeService,
\* which calls KnowledgeService.LoadKnowledgeBase(ctx, s.knowledgeDir)
StartRefresh(p) == BeginLoad(p, "Refresh", knowledgeDir)

\* documentsRW.Lock(): later readers wait from here on
Lock(p) ==
    /\ ~crashed
    /\ pc[p] = "lock"
    /\ rwWriter = None
    /\ rwWriter' = p
    /\ pc' = [pc EXCEPT ![p] = "walk"]
    /\ UNCHANGED <<rwReaders, rwBlocked, fsys, knowledgeDir, index, hist, loads, op, loc, ret, crashed, fnio, svc>>

\* with the write lock held: clear s.documents, walk the directory, unlock
\* (deferred); a walk error returns, Refresh returns, Load goes on to
\* GetAllDocuments
Walk(p) ==
    /\ ~crashed
    /\ pc[p] = "walk"
    /\ rwWriter = p
    /\ rwReaders = {}
    /\ IF WalkFails(op[p].dir)
       THEN /\ documents' = EmptyMap
            /\ ret' = [ret EXCEPT ![p] = [NoRet EXCEPT !.name = op[p].name, !.err = ErrWalk]]
            /\ loc' = [loc EXCEPT ![p] = NoLoc]
            /\ Unlock([pc EXCEPT ![p] = "idle"])
       ELSE /\ documents' = WalkDir(files, knowledgeDir, op[p].dir)
            /\ IF op[p].name = "Refresh"
               THEN /\ ret' = [ret EXCEPT ![p] = [NoRet EXCEPT !.name = "Refresh", !.err = ErrNil]]
                    /\ loc' = [loc EXCEPT ![p] = NoLoc]
                    /\ Unlock([pc EXCEPT ![p] = "idle"])
               ELSE /\ ret' = ret
                    /\ loc' = loc
                    /\ Unlock([pc EXCEPT ![p] = "rlock"])
    /\ UNCHANGED <<fsys, knowledgeDir, vocabulary, idf, docVectors, hist, loads, op, crashed, fnio, svc>>

\* docs := v.GetAllDocuments() inside LoadKnowledgeBase: a copy of the
\* documents in map order, made under the read lock
LoadGetAll(p) ==
    /\ ~crashed
    /\ pc[p] = "read"
    /\ op[p].name = "Load"
    /\ \E order \in Orders(MapValues(documents)) :
           loc' = [loc EXCEPT ![p].docs = order]
    /\ RUnlock(p)
    /\ pc' = [pc EXCEPT ![p] = "bv_reset"]
    /\ UNCHANGED <<fsys, knowledgeDir, index, hist, loads, op, ret, crashed, fnio, svc>>

\* BuildVocabulary, the reset: new vocabulary and idf maps, df, vocabIndex
BuildReset(p) ==
    /\ ~crashed
    /\ pc[p] = "bv_reset"
    /\ vocabulary' = EmptyMap
    /\ idf' = EmptyMap
    /\ genVocab' = loc[p].gen
    /\ loc' = [loc EXCEPT ![p].df = EmptyMap, ![p].vocabIndex = 0, ![p].i = 1]
    /\ pc' = [pc EXCEPT ![p] = IF loc[p].docs = <<>> THEN "bv_idf" ELSE "bv_doc"]
    /\ UNCHANGED <<fsys, knowledgeDir, documents, docVectors, genVec, lock, loads, op, ret, crashed, fnio, svc>>

\* BuildVocabulary, one turn of the loop over the documents
BuildDoc(p) ==
    /\ ~crashed
    /\ pc[p] = "bv_doc"
    /\ LET st == ScanDoc(loc[p].docs[loc[p].i], vocabulary, loc[p].vocabIndex, loc[p].df)
       IN  /\ vocabulary' = st.vocabulary
           /\ loc' = [loc EXCEPT ![p].df = st.df, ![p].vocabIndex = st.vocabIndex,
                                 ![p].i = loc[p].i + 1]
    /\ pc' = [pc EXCEPT ![p] = IF loc[p].i = Len(loc[p].docs) THEN "bv_idf" ELSE "bv_doc"]
    /\ UNCHANGED <<fsys, knowledgeDir, documents, idf, docVectors, hist, lock, loads, op, ret, crashed, fnio, svc>>

\* BuildVocabulary, the IDF loop: s.idf[token] for every token of df
BuildIdf(p) ==
    /\ ~crashed
    /\ pc[p] = "bv_idf"
    /\ LET new == IdfOf(loc[p].df, Len(loc[p].docs))
       IN  idf' = [t \in (DOMAIN idf) \cup (DOMAIN new) |->
                      IF t \in DOMAIN new THEN new[t] ELSE idf[t]]
    /\ pc' = [pc EXCEPT ![p] = "vec_reset"]
    /\ UNCHANGED <<fsys, knowledgeDir, documents, vocabulary, docVectors, hist, lock, loads, op, loc, ret, crashed, fnio, svc>>

\* v.docVectors = make(...)
VectorsReset(p) ==
    /\ ~crashed
    /\ pc[p] = "vec_reset"
    /\ docVectors' = EmptyMap
    /\ genVec' = EmptyMap
    /\ IF loc[p].docs = <<>>
       THEN /\ pc' = [pc EXCEPT ![p] = "idle"]
            /\ ret' = [ret EXCEPT ![p] = [NoRet EXCEPT !.name = "Load", !.err = ErrNil]]
            /\ loc' = [loc EXCEPT ![p] = NoLoc]
       ELSE /\ pc' = [pc EXCEPT ![p] = "vec_doc"]
            /\ ret' = ret
            /\ loc' = [loc EXCEPT ![p].i = 1]
    /\ UNCHANGED <<fsys, knowledgeDir, documents, vocabulary, idf, genVocab, lock, loads, op, crashed, fnio, svc>>

\* one turn of the loop that stores the vector of each document; after the
\* last one LoadKnowledgeBase returns nil.  GetEmbedding panics on an index
\* outside its vector.
VectorsDoc(p) ==
    /\ ~crashed
    /\ pc[p] = "vec_doc"
    /\ LET doc == loc[p].docs[loc[p].i]
           last == loc[p].i = Len(loc[p].docs)
       IN  IF EmbeddingPanics(vocabulary, doc.Content)
           THEN /\ crashed' = TRUE
                /\ UNCHANGED <<docVectors, genVec, loc, pc, ret>>
           ELSE /\ \E vector \in Embeddings(vocabulary, idf, doc.Content) :
                       docVectors' = MapPut(docVectors, doc.ID, vector)
                /\ genVec' = MapPut(genVec, doc.ID, loc[p].gen)
                /\ loc' = [loc EXCEPT ![p] = IF last THEN NoLoc
                                              ELSE [loc[p] EXCEPT !.i = loc[p].i + 1]]
                /\ pc' = [pc EXCEPT ![p] = IF last THEN "idle" ELSE "vec_doc"]
                /\ ret' = IF last
                          THEN [ret EXCEPT ![p] = [NoRet EXCEPT !.name = "Load", !.err = ErrNil]]
                          ELSE ret
                /\ UNCHANGED crashed
    /\ UNCHANGED <<fsys, knowledgeDir, documents, vocabulary, idf, genVocab, lock, loads, op, fnio, svc>>

(***************************************************************************)
(* VectorSearch, GetAllDocuments, GetDocument.                             *)
(***************************************************************************)
\* VectorSearch(ctx, query, limit) is called
StartSearch(p, query, limit) ==
    /\ ~crashed
    /\ pc[p] = "idle"
    /\ op' = [op EXCEPT ![p] = [NoOp EXCEPT !.name = "VectorSearch",
                                            !.query = query, !.limit = limit]]
    /\ loc' = [loc EXCEPT ![p] = NoLoc]
    /\ ret' = [ret EXCEPT ![p] = NoRet]
    /\ pc' = [pc EXCEPT ![p] = "encode"]
    /\ UNCHANGED <<fsys, knowledgeDir, index, lock, hist, loads, crashed, fnio, svc>>

\* queryVector, err := v.embedding.GetEmbedding(query), before any lock
Encode(p) ==
    /\ ~crashed
    /\ pc[p] = "encode"
    /\ IF EmbeddingPanics(vocabulary, op[p].query)
       THEN /\ crashed' = TRUE
            /\ UNCHANGED <<loc, pc>>
       ELSE /\ \E vector \in Embeddings(vocabulary, idf, op[p].query) :
                   loc' = [loc EXCEPT ![p].qv = vector, ![p].qGen = genVocab]
            /\ pc' = [pc EXCEPT ![p] = "rlock"]
            /\ UNCHANGED crashed
    /\ UNCHANGED <<fsys, knowledgeDir, index, lock, hist, loads, op, ret, fnio, svc>>

\* the documents VectorSearch scores: those with a vector and a document
Scored == (DOMAIN docVectors) \cap (DOMAIN documents)

\* the results of the loop of VectorSearch, before sorting
Hits(queryVector) ==
    {[id |-> id, score |-> CosineSimilarity(queryVector, docVectors[id])] : id \in Scored}

\* the filter that lets a score equal to the threshold pass
RelevantInclusive(queryVector) == {h \in Hits(queryVector) : h.score >= Threshold}

\* the loop without its filter
RelevantAll(queryVector) == Hits(queryVector)

\* the results that pass "score > 0.1"
Relevant(queryVector) == {h \in Hits(queryVector) : h.score > Threshold}

\* the orders sort.Slice can leave: no result before one of higher score
SortedOrders(S) ==
    {o \in Orders(S) : \A i \in 1..Len(o) : \A j \in 1..Len(o) :
                           i < j => o[i].score >= o[j].score}

\* the cut that keeps the end of the slice, results[len(results)-limit:]
TruncateTail(results, limit) ==
    IF Len(results) > limit
    THEN SubSeq(results, Len(results) - limit + 1, Len(results))
    ELSE results

\* results[:limit] when there are more than limit results
Truncate(results, limit) ==
    IF Len(results) > limit THEN SubSeq(results, 1, limit) ELSE results

\* VectorSearch under the read lock: score, filter, sort, limit, return.
\* len(results) > limit holds for every limit below 0, and results[:limit]
\* then panics; the deferred RUnlock runs while the panic unwinds
SearchRank(p) ==
    /\ ~crashed
    /\ pc[p] = "read"
    /\ op[p].name = "VectorSearch"
    /\ \E sorted \in SortedOrders(Relevant(loc[p].qv)) :
          IF Len(sorted) > op[p].limit /\ op[p].limit < 0
          THEN ret' = [ret EXCEPT ![p] = [NoRet EXCEPT !.name = "VectorSearch",
                                                       !.err = ErrPanic]]
          ELSE LET results == Truncate(sorted, op[p].limit)
               IN  ret' = [ret EXCEPT ![p] =
                             [name |-> "VectorSearch", err |-> ErrNil,
                              docs |-> [i \in 1..Len(results) |-> documents[results[i].id]],
                              scores |-> [i \in 1..Len(results) |-> results[i].score],
                              qGen |-> loc[p].qGen,
                              vecGens |-> {genVec[id] : id \in Scored}]]
    /\ loc' = [loc EXCEPT ![p] = NoLoc]
    /\ RUnlock(p)
    /\ pc' = [pc EXCEPT ![p] = "idle"]
    /\ UNCHANGED <<fsys, knowledgeDir, index, hist, loads, op, crashed, fnio, svc>>

\* GetAllDocuments() is called
StartGetAll(p) ==
    /\ ~crashed
    /\ pc[p] = "idle"
    /\ op' = [op EXCEPT ![p] = [NoOp EXCEPT !.name = "GetAll"]]
    /\ loc' = [loc EXCEPT ![p] = NoLoc]
    /\ ret' = [ret EXCEPT ![p] = NoRet]
    /\ pc' = [pc EXCEPT ![p] = "rlock"]
    /\ UNCHANGED <<fsys, knowledgeDir, index, lock, hist, loads, crashed, fnio, svc>>

\* GetAllDocuments under the read lock
GetAllDocuments(p) ==
    /\ ~crashed
    /\ pc[p] = "read"
    /\ op[p].name = "GetAll"
    /\ \E order \in Orders(MapValues(documents)) :
           ret' = [ret EXCEPT ![p] = [NoRet EXCEPT !.name = "GetAll", !.err = ErrNil,
                                                   !.docs = order]]
    /\ RUnlock(p)
    /\ pc' = [pc EXCEPT ![p] = "idle"]
    /\ UNCHANGED <<fsys, knowledgeDir, index, hist, loads, op, loc, crashed, fnio, svc>>

\* GetDocument(id) is called
StartGetDocument(p, id) ==
    /\ ~crashed
    /\ pc[p] = "idle"
    /\ op' = [op EXCEPT ![p] = [NoOp EXCEPT !.name = "GetDocument", !.id = id]]
    /\ loc' = [loc EXCEPT ![p] = NoLoc]
    /\ ret' = [ret EXCEPT ![p] = NoRet]
    /\ pc' = [pc EXCEPT ![p] = "rlock"]
    /\ UNCHANGED <<fsys, knowledgeDir, index, lock, hist, loads, crashed, fnio, svc>>

\* the lookup that hands back the zero Document of a missing key
GetDocumentZero(p) ==
    /\ ~crashed
    /\ pc[p] = "read"
    /\ op[p].name = "GetDocument"
    /\ ret' = [ret EXCEPT ![p] =
                 [NoRet EXCEPT !.name = "GetDocument", !.err = ErrNil,
                               !.docs = IF op[p].id \in DOMAIN documents
                                        THEN <<documents[op[p].id]>>
                                        ELSE <<[ID |-> <<>>, FilePath |-> <<>>,
                                                Content |-> <<>>, ModTime |-> 0,
                                                Title |-> <<>>, Sections |-> <<>>]>>]]
    /\ RUnlock(p)
    /\ pc' = [pc EXCEPT ![p] = "idle"]
    /\ UNCHANGED <<fsys, knowledgeDir, index, hist, loads, op, loc, crashed, fnio, svc>>

\* GetDocument under the read lock
GetDocument(p) ==
    /\ ~crashed
    /\ pc[p] = "read"
    /\ op[p].name = "GetDocument"
    /\ ret' = [ret EXCEPT ![p] =
                 IF op[p].id \in DOMAIN documents
                 THEN [NoRet EXCEPT !.name = "GetDocument", !.err = ErrNil,
                                    !.docs = <<documents[op[p].id]>>]
                 ELSE [NoRet EXCEPT !.name = "GetDocument", !.err = ErrNotFound]]
    /\ RUnlock(p)
    /\ pc' = [pc EXCEPT ![p] = "idle"]
    /\ UNCHANGED <<fsys, knowledgeDir, index, hist, loads, op, loc, crashed, fnio, svc>>

(***************************************************************************)
(* SearchDocuments: the keyword search of KnowledgeService.                *)
(***************************************************************************)
\* strings.Count(s, sub) from position i on, for a sub that is not empty:
\* occurrences that do not overlap, found from the left
RECURSIVE CountFrom(_, _, _)
CountFrom(s, sub, i) ==
    IF i + Len(sub) - 1 > Len(s) THEN 0
    ELSE IF SubSeq(s, i, i + Len(sub) - 1) = sub
         THEN 1 + CountFrom(s, sub, i + Len(sub))
         ELSE CountFrom(s, sub, i + 1)

\* strings.Count; strings.Contains(s, sub) is Count(s, sub) > 0
Count(s, sub) == IF sub = <<>> THEN Len(s) + 1 ELSE CountFrom(s, sub, 1)

\* the score of one document: 10 for the title, 1 for every occurrence in
\* the content, 5 for every section title; query is in lower case
KeywordScore(doc, query) ==
    (IF Count(ToLower(doc.Title), query) > 0 THEN 10 ELSE 0)
    + Count(ToLower(doc.Content), query)
    + 5 * Cardinality({i \in 1..Len(doc.Sections) :
                          Count(ToLower(doc.Sections[i].Title), query) > 0})

\* the loop of SearchDocuments over the documents from position i on: a
\* document that scores is appended, then the length is tested against limit
RECURSIVE KeywordScan(_, _, _, _, _)
KeywordScan(docs, i, query, limit, results) ==
    IF i > Len(docs) THEN results
    ELSE IF KeywordScore(docs[i], query) > 0
         THEN LET r == Append(results, docs[i])
              IN  IF Len(r) >= limit THEN r
                  ELSE KeywordScan(docs, i + 1, query, limit, r)
         ELSE KeywordScan(docs, i + 1, query, limit, results)

\* SearchDocuments(ctx, query, limit) is called
StartSearchDocuments(p, query, limit) ==
    /\ ~crashed
    /\ pc[p] = "idle"
    /\ op' = [op EXCEPT ![p] = [NoOp EXCEPT !.name = "SearchDocuments",
                                            !.query = query, !.limit = limit]]
    /\ loc' = [loc EXCEPT ![p] = NoLoc]
    /\ ret' = [ret EXCEPT ![p] = NoRet]
    /\ pc' = [pc EXCEPT ![p] = "rlock"]
    /\ UNCHANGED <<fsys, knowledgeDir, index, lock, hist, loads, crashed, fnio, svc>>

\* SearchDocuments under the read lock: the documents are ranged over in
\* map order
SearchDocuments(p) ==
    /\ ~crashed
    /\ pc[p] = "read"
    /\ op[p].name = "SearchDocuments"
    /\ \E order \in Orders(MapValues(documents)) :
           ret' = [ret EXCEPT ![p] =
                     [NoRet EXCEPT !.name = "SearchDocuments", !.err = ErrNil,
                                   !.docs = KeywordScan(order, 1, ToLower(op[p].query),
                                                        op[p].limit, <<>>)]]
    /\ RUnlock(p)
    /\ pc' = [pc EXCEPT ![p] = "idle"]
    /\ UNCHANGED <<fsys, knowledgeDir, index, hist, loads, op, loc, crashed, fnio, svc>>

(***************************************************************************)
(* Unsynchronised map access.  The vocabulary and idf maps are written by  *)
(* BuildVocabulary and read by GetEmbedding, the docVectors map is written *)
(* by LoadKnowledgeBase and ranged over by VectorSearch, none of it under  *)
(* documentsRW: when two goroutines are at such accesses the Go runtime    *)
(* may stop the program (fatal error: concurrent map read and map write).  *)
(***************************************************************************)
WritesVocabulary(p) == pc[p] \in {"bv_doc", "bv_idf"}
ReadsVocabulary(p)  == pc[p] \in {"encode", "vec_doc"}
WritesVectors(p)    == pc[p] = "vec_doc"
ReadsVectors(p)     == pc[p] = "read" /\ op[p].name = "VectorSearch"

MapRace ==
    \E p \in Procs : \E q \in Procs \ {p} :
        \/ WritesVocabulary(p) /\ (WritesVocabulary(q) \/ ReadsVocabulary(q))
        \/ WritesVectors(p) /\ (WritesVectors(q) \/ ReadsVectors(q))

RaceCrash ==
    /\ ~crashed
    /\ MapRace
    /\ crashed' = TRUE
    /\ UNCHANGED <<fsys, knowledgeDir, index, lock, hist, loads, pc, op, loc, ret, fnio, svc>>

(***************************************************************************)
(* The environment: files of the knowledge directories change.             *)
(***************************************************************************)
WriteFile(path, text) ==
    /\ ~crashed
    /\ fsOps < MaxFsOps
    /\ fsOps' = fsOps + 1
    /\ files' = MapPut(files, path, File(text, fsOps + 1))
    /\ UNCHANGED <<knowledgeDir, index, lock, hist, loads, pc, op, loc, ret, crashed, fnio, svc>>

RemoveFile(path) ==
    /\ ~crashed
    /\ fsOps < MaxFsOps
    /\ path \in DOMAIN files
    /\ fsOps' = fsOps + 1
    /\ files' = [x \in (DOMAIN files) \ {path} |-> files[x]]
    /\ UNCHANGED <<knowledgeDir, index, lock, hist, loads, pc, op, loc, ret, crashed, fnio, svc>>

\* a directory is removed with everything below it
RemoveAll(dir) ==
    /\ ~crashed
    /\ fsOps < MaxFsOps
    /\ \E path \in DOMAIN files : HasPrefix(path, dir \o <<"/">>)
    /\ fsOps' = fsOps + 1
    /\ files' = [x \in {path \in DOMAIN files : ~HasPrefix(path, dir \o <<"/">>)} |-> files[x]]
    /\ UNCHANGED <<knowledgeDir, index, lock, hist, loads, pc, op, loc, ret, crashed, fnio, svc>>

\* the permissions of a file are taken away: os.ReadFile (or os.Stat) of
\* loadDocument returns an error from now on
Protect(path) ==
    /\ ~crashed
    /\ fsOps < MaxFsOps
    /\ path \in DOMAIN files
    /\ files[path].readable
    /\ fsOps' = fsOps + 1
    /\ files' = [files EXCEPT ![path].readable = FALSE]
    /\ UNCHANGED <<knowledgeDir, index, lock, hist, loads, pc, op, loc, ret, crashed, fnio, svc>>

(***************************************************************************)
(* Specifications.                                                         *)
(***************************************************************************)
\* the arguments of the calls made concurrently
SpecDirs    == {KbDir, AltDir}
SpecQueries == {QueryCats}
SpecLimits  == {5}
SpecIds     == {IdA}

\* the steps of goroutine p inside a call
Run(p) ==
    \/ Lock(p)
    \/ Walk(p)
    \/ RLock(p)
    \/ LoadGetAll(p)
    \/ BuildReset(p)
    \/ BuildDoc(p)
    \/ BuildIdf(p)
    \/ VectorsReset(p)
    \/ VectorsDoc(p)
    \/ Encode(p)
    \/ SearchRank(p)
    \/ GetAllDocuments(p)
    \/ GetDocument(p)

\* goroutine p calls the service
Call(p) ==
    \/ \E dir \in SpecDirs : StartLoad(p, dir)
    \/ StartRefresh(p)
    \/ \E query \in SpecQueries : \E limit \in SpecLimits : StartSearch(p, query, limit)
    \/ StartGetAll(p)
    \/ \E id \in SpecIds : StartGetDocument(p, id)

\* the steps of the single goroutine
Step(p) ==
    \/ \E dir \in Dirs : StartLoad(p, dir)
    \/ StartRefresh(p)
    \/ Lock(p)
    \/ Walk(p)
    \/ RLock(p)
    \/ LoadGetAll(p)
    \/ BuildReset(p)
    \/ BuildDoc(p)
    \/ BuildIdf(p)
    \/ VectorsReset(p)
    \/ VectorsDoc(p)
    \/ \E a \in SearchArgs : StartSearch(p, a[1], a[2])
    \/ Encode(p)
    \/ SearchRank(p)
    \/ StartGetAll(p)
    \/ GetAllDocuments(p)
    \/ \E id \in LookupIds : StartGetDocument(p, id)
    \/ GetDocument(p)
    \/ \E a \in KeywordArgs : StartSearchDocuments(p, a[1], a[2])
    \/ SearchDocuments(p)

\* the goroutines call the service concurrently; the files do not change
Next ==
    \/ \E p \in Procs : Call(p) \/ Run(p)
    \/ RaceCrash

Spec == Init /\ [][Next]_vars

\* one goroutine calls the service; the files change between its steps
SeqNext ==
    \/ Step(SeqProc)
    \/ \E path \in WritePaths : \E text \in WriteTexts : WriteFile(path, text)
    \/ \E path \in WritePaths : RemoveFile(path)
    \/ Protect(PathA)
    \/ RemoveAll(KbDir)

SeqSpec == Init /\ [][SeqNext]_vars

(***************************************************************************)
(* The functions of the service called on their own: the arguments are     *)
(* drawn from bounded sets, one step applies the function.                 *)
(***************************************************************************)
\* strings.Join
RECURSIVE Join(_, _)
Join(parts, sep) ==
    IF parts = <<>> THEN <<>>
    ELSE IF Len(parts) = 1 THEN parts[1]
    ELSE parts[1] \o <<sep>> \o Join(Tail(parts), sep)

\* the arguments:
\*   CosineSimilarity  two vectors of at most MaxDim entries
\*   parseDocument     a content of at most MaxLines lines
\*   scores            a query and three documents: docs[2] has at most
\*                     MaxWords words, docs[1] is docs[2] with the query
\*                     word once more, docs[3] is one word
\*   tokenize          a text of at most MaxWords pieces with a space or a
\*                     tab between them
\*   LoadKnowledgeBase a directory (text) and the paths of the files below
\*                     it (docs), at least one
FnArgs ==
    LET Seqs(S, lo, hi) == UNION {[1..k -> S] : k \in lo..hi}
        vectors == Seqs({0, 300, 400}, 0, MaxDim)
        lines   == {<<"#"," ","A">>, <<"#","#">>, <<"x">>, <<>>,
                    <<"#","#","b">>, <<" ","y">>}
        words   == {QueryCats, QueryDogs, <<"n","a","p">>}
        names   == {<<"a","/","b",".","m","d">>, <<"a","_","b",".","m","d">>,
                    <<"a",".","m","d">>, <<"a",".","M","D">>, <<"n",".","t","x","t">>}
        pieces  == {<<"C","a","t","s">>, <<"7","7","7">>, <<"a","B">>, <<"d","o","G","s",".">>,
                    <<"n","a","p","_","7","b","7">>}
    IN  {[NoArg EXCEPT !.fn = "CosineSimilarity", !.a = a, !.b = b] :
            a \in vectors, b \in vectors}
        \cup
        {[NoArg EXCEPT !.fn = "parseDocument", !.text = Join(ls, "\n")] :
            ls \in Seqs(lines, 1, MaxLines)}
        \cup
        {[NoArg EXCEPT !.fn = "scores", !.text = QueryCats,
                       !.docs = <<Join(Append(ws, QueryCats), " "), Join(ws, " "), w>>] :
            ws \in Seqs(words, 1, MaxWords), w \in words}
        \cup
        {[NoArg EXCEPT !.fn = "tokenize", !.text = Join(ps, sep)] :
            ps \in Seqs(pieces, 1, MaxWords), sep \in {" ", "\t"}}
        \cup
        {[NoArg EXCEPT !.fn = "LoadKnowledgeBase", !.text = KbDir, !.docs = SortPaths(S)] :
            S \in (SUBSET {KbDir \o <<"/">> \o name : name \in names}) \ {{}}}

FnInit ==
    /\ arg \in FnArgs
    /\ out = NoOut
    /\ SvcInit
    /\ files = InitFiles
    /\ fsOps = 0
    /\ knowledgeDir = <<>>
    /\ documents = EmptyMap
    /\ rwWriter = None
    /\ rwReaders = {}
    /\ rwBlocked = {}
    /\ vocabulary = EmptyMap
    /\ idf = EmptyMap
    /\ docVectors = EmptyMap
    /\ genVocab = 0
    /\ genVec = EmptyMap
    /\ loads = 0
    /\ pc = [p \in Procs |-> "idle"]
    /\ op = [p \in Procs |-> NoOp]
    /\ loc = [p \in Procs |-> NoLoc]
    /\ ret = [p \in Procs |-> NoRet]
    /\ crashed = FALSE

\* score := CosineSimilarity(a, b)
EvalCosineSimilarity ==
    /\ arg.fn = "CosineSimilarity"
    /\ ~out.done
    /\ out' = [NoOut EXCEPT !.done = TRUE, !.score = CosineSimilarity(arg.a, arg.b)]
    /\ UNCHANGED <<fsys, knowledgeDir, index, lock, hist, loads, pc, op, loc, ret, crashed, arg, svc>>

\* parseDocument(doc) on a document with the content and no title
EvalParseDocument ==
    /\ arg.fn = "parseDocument"
    /\ ~out.done
    /\ LET doc == parseDocument([ID |-> <<"x">>, FilePath |-> <<"x", ".", "m", "d">>,
                                 Content |-> arg.text, ModTime |-> 0,
                                 Title |-> <<>>, Sections |-> <<>>])
       IN  out' = [NoOut EXCEPT !.done = TRUE, !.title = doc.Title,
                                !.sections = doc.Sections]
    /\ UNCHANGED <<fsys, knowledgeDir, index, lock, hist, loads, pc, op, loc, ret, crashed, arg, svc>>

\* BuildVocabulary(docs), GetEmbedding of each document and of the query,
\* CosineSimilarity of the query vector and each document vector
EvalScores ==
    /\ arg.fn = "scores"
    /\ ~out.done
    /\ LET docs == [i \in 1..Len(arg.docs) |->
                       [ID |-> <<i>>, FilePath |-> <<>>, Content |-> arg.docs[i],
                        ModTime |-> 0, Title |-> <<>>, Sections |-> <<>>]]
           b    == BuildIndex(docs)
           qv   == GetEmbedding(b.vocabulary, b.idf, arg.text)
       IN  out' = [NoOut EXCEPT !.done = TRUE,
                                !.scores = [i \in 1..Len(docs) |->
                                               CosineSimilarity(qv, b.docVectors[<<i>>])]]
    /\ UNCHANGED <<fsys, knowledgeDir, index, lock, hist, loads, pc, op, loc, ret, crashed, arg, svc>>

\* tokenize(text)
EvalTokenize ==
    /\ arg.fn = "tokenize"
    /\ ~out.done
    /\ out' = [NoOut EXCEPT !.done = TRUE, !.tokens = tokenize(arg.text)]
    /\ UNCHANGED <<fsys, knowledgeDir, index, lock, hist, loads, pc, op, loc, ret, crashed, arg, svc>>

\* the walk of LoadKnowledgeBase(dir) over the files arg.docs, every one
\* of them readable, with the content of a.md; ids are the keys of
\* s.documents after the walk
EvalLoadKnowledgeBase ==
    /\ arg.fn = "LoadKnowledgeBase"
    /\ ~out.done
    /\ LET fs == [path \in {arg.docs[i] : i \in 1..Len(arg.docs)} |-> File(TextAlpha, 0)]
       IN  out' = [NoOut EXCEPT !.done = TRUE,
                                !.ids = DOMAIN WalkDir(fs, arg.text, arg.text)]
    /\ UNCHANGED <<fsys, knowledgeDir, index, lock, hist, loads, pc, op, loc, ret, crashed, arg, svc>>

FnNext ==
    \/ EvalCosineSimilarity
    \/ EvalParseDocument
    \/ EvalScores
    \/ EvalTokenize
    \/ EvalLoadKnowledgeBase

FnSpec == FnInit /\ [][FnNext]_vars

(***************************************************************************)
(* GetResponse of CustomAI and DynamicAI (the two are the same loop): up   *)
(* to maxRetries attempts with a wait between them.  One call, its context *)
(* may be cancelled at any time.                                           *)
(***************************************************************************)
\* const maxRetries = 3
maxRetries == 3

\* the wait that stays the same
WaitTimeFixed(n) == 2

\* waitTime := time.Duration(2<<uint(attempt-1)) * time.Second, in seconds
WaitTime(n) == 2 * 2^(n - 1)

\* GetResponse(ctx, messages, modelID) is called: attempt := 1
StartGetResponse ==
    /\ grPc = "idle"
    /\ grPc' = "attempt"
    /\ attempt' = 1
    /\ UNCHANGED <<outcomes, waits, result, ctxDone, dconf, cache, kb>>

\* one turn of the loop up to the select: getResponseWithRetry ends with a
\* response, with the error of a 4xx status, of another status, of a
\* request that was not answered, or, before any request, of a model that
\* is not known (under a cancelled context no request is answered); a
\* response is returned, an error leads to the wait or, after the last
\* attempt, to the return of "all retry attempts failed"
Attempt(outcome) ==
    /\ grPc = "attempt"
    /\ ctxDone => outcome \in {"send error", "model not found"}
    /\ outcomes' = Append(outcomes, outcome)
    /\ IF outcome = "ok"
       THEN /\ result' = "ok"
            /\ grPc' = "done"
       ELSE IF attempt < maxRetries
       THEN /\ result' = result
            /\ grPc' = "wait"
       ELSE /\ result' = "all retry attempts failed"
            /\ grPc' = "done"
    /\ UNCHANGED <<attempt, waits, ctxDone, dconf, cache, kb>>

\* case <-time.After(waitTime): the wait ran out first, next attempt
TimeAfter ==
    /\ grPc = "wait"
    /\ ~ctxDone
    /\ waits' = Append(waits, WaitTime(attempt))
    /\ attempt' = attempt + 1
    /\ grPc' = "attempt"
    /\ UNCHANGED <<outcomes, result, ctxDone, dconf, cache, kb>>

\* case <-ctx.Done(): return "", ctx.Err()
CtxDone ==
    /\ grPc = "wait"
    /\ ctxDone
    /\ result' = "context canceled"
    /\ grPc' = "done"
    /\ UNCHANGED <<attempt, outcomes, waits, ctxDone, dconf, cache, kb>>

\* the caller cancels the context
Cancel ==
    /\ grPc # "done"
    /\ ~ctxDone
    /\ ctxDone' = TRUE
    /\ UNCHANGED <<grPc, attempt, outcomes, waits, result, dconf, cache, kb>>

RetryNext ==
    \/ StartGetResponse
    \/ \E outcome \in {"ok", "client error", "server error", "send error",
                        "model not found"} : Attempt(outcome)
    \/ TimeAfter
    \/ CtxDone
    \/ Cancel

RetrySpec == Init /\ [][RetryNext]_vars

(***************************************************************************)
(* DynamicConfigService.mu, a sync.RWMutex: from the moment a goroutine    *)
(* is inside Lock() every RLock() waits, also that of a goroutine that     *)
(* holds a read lock already; Lock() returns when the read locks are gone. *)
(***************************************************************************)
\* notifyConfigChange: s.mu.RLock()
NotifyRLock(g) ==
    /\ cfgPc[g] = "idle"
    /\ muWriter = None
    /\ muReaders' = muReaders + 1
    /\ cfgPc' = [cfgPc EXCEPT ![g] = "outer"]
    /\ UNCHANGED <<muWriter, listeners, retry, cache, kb>>

\* notifyConfigChange calls GetCurrentConfig: s.mu.RLock() once more
GetConfigRLock(g) ==
    /\ cfgPc[g] = "outer"
    /\ muWriter = None
    /\ muReaders' = muReaders + 1
    /\ cfgPc' = [cfgPc EXCEPT ![g] = "inner"]
    /\ UNCHANGED <<muWriter, listeners, retry, cache, kb>>

\* GetCurrentConfig returns, its deferred RUnlock runs
GetConfigReturn(g) ==
    /\ cfgPc[g] = "inner"
    /\ muReaders' = muReaders - 1
    /\ cfgPc' = [cfgPc EXCEPT ![g] = "notify"]
    /\ UNCHANGED <<muWriter, listeners, retry, cache, kb>>

\* the listeners are started, notifyConfigChange returns, its deferred
\* RUnlock runs
NotifyReturn(g) ==
    /\ cfgPc[g] = "notify"
    /\ muReaders' = muReaders - 1
    /\ cfgPc' = [cfgPc EXCEPT ![g] = "idle"]
    /\ UNCHANGED <<muWriter, listeners, retry, cache, kb>>

\* RegisterConfigChangeListener: s.mu.Lock() is entered, no other writer
\* being inside; the read locks are waited for
RegisterLock(g) ==
    /\ cfgPc[g] = "idle"
    /\ listeners < MaxListeners
    /\ muWriter = None
    /\ muWriter' = g
    /\ cfgPc' = [cfgPc EXCEPT ![g] = "drain"]
    /\ UNCHANGED <<muReaders, listeners, retry, cache, kb>>

\* s.mu.Lock() returns: the read locks are gone
RegisterEnter(g) ==
    /\ cfgPc[g] = "drain"
    /\ muReaders = 0
    /\ cfgPc' = [cfgPc EXCEPT ![g] = "write"]
    /\ UNCHANGED <<muReaders, muWriter, listeners, retry, cache, kb>>

\* s.listeners = append(s.listeners, listener), the deferred Unlock runs
RegisterReturn(g) ==
    /\ cfgPc[g] = "write"
    /\ listeners' = listeners + 1
    /\ muWriter' = None
    /\ cfgPc' = [cfgPc EXCEPT ![g] = "idle"]
    /\ UNCHANGED <<muReaders, retry, cache, kb>>

ConfigNext ==
    \/ \E g \in Notifiers :
           NotifyRLock(g) \/ GetConfigRLock(g) \/ GetConfigReturn(g) \/ NotifyReturn(g)
    \/ \E g \in Registrars :
           RegisterLock(g) \/ RegisterEnter(g) \/ RegisterReturn(g)

ConfigSpec == Init /\ [][ConfigNext]_vars

(***************************************************************************)
(* The response cache (Cache over go-cache), enabled.  A key stands for    *)
(* the hash of model and question; an entry expires CacheTTL after it was  *)
(* set and stays in the map until DeleteExpired or Flush takes it out.     *)
(***************************************************************************)
\* c.cache.DeleteExpired(): the entries whose time is over are taken out
DeleteExpired(m, t) == [k \in {x \in DOMAIN m : m[x] >= t} |-> m[k]]

\* Set(ctx, question, model, answer): DeleteExpired when the item count has
\* reached maxSize, then SetDefault
CacheSet(question, model) ==
    /\ LET key  == <<model, question>>
           kept == IF Cardinality(DOMAIN items) >= CacheMaxSize
                   THEN DeleteExpired(items, now) ELSE items
       IN  items' = MapPut(kept, key, now + CacheTTL)
    /\ UNCHANGED <<now, retry, dconf, kb>>

\* Clear(ctx): c.cache.Flush()
CacheClear ==
    /\ items # EmptyMap
    /\ items' = EmptyMap
    /\ UNCHANGED <<now, retry, dconf, kb>>

\* time passes
Tick ==
    /\ now < MaxTime
    /\ now' = now + 1
    /\ UNCHANGED <<items, retry, dconf, kb>>

CacheNext ==
    \/ \E question \in {"q1", "q2"} : \E model \in {"m1", "m2"} : CacheSet(question, model)
    \/ CacheClear
    \/ Tick

CacheSpec == Init /\ [][CacheNext]_vars

(***************************************************************************)
(* Properties.                                                             *)
(***************************************************************************)
\* goroutine p is back from a call named name that returned err
Returned(p, name, err) ==
    pc[p] = "idle" /\ ret[p].name = name /\ ret[p].err = err

\* vocabulary, idf table and document vectors are what the build pipeline
\* makes of the loaded documents, for some order of scanning them
IndexConsistent ==
    \E order \in Orders(MapValues(documents)) :
        LET b == BuildIndex(order)
        IN  /\ vocabulary = b.vocabulary
            /\ idf = b.idf
            /\ docVectors = b.docVectors

\* the score VectorSearch gives document id for query in the current index
ScoreOf(query, id) ==
    CosineSimilarity(GetEmbedding(vocabulary, idf, query), docVectors[id])

\* the documents of a directory in walk order, and the score of a query
\* against one of them when the index is built from that order
WalkOrder(fs, dir) ==
    LET docs  == WalkDir(fs, dir, dir)
        paths == WalkPaths(fs, dir)
        kept  == SelectSeq(paths, LAMBDA path : \E id \in DOMAIN docs : docs[id].FilePath = path)
    IN  [i \in 1..Len(kept) |-> CHOOSE d \in MapValues(docs) : d.FilePath = kept[i]]

WalkOrderScore(fs, dir, query, id) ==
    LET b == BuildIndex(WalkOrder(fs, dir))
    IN  CosineSimilarity(GetEmbedding(b.vocabulary, b.idf, query), b.docVectors[id])

\* C3: after a successful Refresh the documents with a vector are the loaded
\* documents, and each vector is the encoding of the document's content
\* under the current vocabulary and idf table
C3_RefreshRebuildsVectors ==
    \A p \in Procs :
        Returned(p, "Refresh", ErrNil) =>
            /\ DOMAIN docVectors = DOMAIN documents
            /\ \A id \in DOMAIN documents :
                   docVectors[id] \in Embeddings(vocabulary, idf, documents[id].Content)

\* the step in which a load call of p returns a directory-level error
FailedLoadStep(p) ==
    /\ pc'[p] = "idle"
    /\ ret'[p].err \in {ErrMkdir, ErrWalk}
    /\ loads' # loads \/ pc[p] = "walk"

\* C4: a load that fails at directory level leaves documents, vocabulary,
\* idf table, vectors and the remembered directory as they were
C4_FailedLoadKeepsState ==
    [][\A p \in Procs :
          FailedLoadStep(p) => (index' = index /\ knowledgeDir' = knowledgeDir)]_vars

\* the corpus a.md = "# Alpha\ncats are great", b.md = "# Beta\ndogs are
\* great" is loaded and indexed
KbCorpusLoaded ==
    /\ DOMAIN documents = {IdA, IdB}
    /\ documents[IdA].Content = TextAlpha
    /\ documents[IdB].Content = TextBeta
    /\ IndexConsistent

\* goroutine p is back from VectorSearch(query, 5)
Searched(p, query) ==
    /\ Returned(p, "VectorSearch", ErrNil)
    /\ op[p].query = query
    /\ op[p].limit = 5

\* C7 as stated: with the corpus loaded, Search("great", 5) returns both
\* documents with near-equal scores
C7_GreatReturnsBoth ==
    \A p \in Procs :
        (Searched(p, QueryGreat) /\ KbCorpusLoaded) =>
            /\ {ret[p].docs[i].ID : i \in 1..Len(ret[p].docs)} = {IdA, IdB}
            /\ Len(ret[p].docs) = 2
            /\ ret[p].scores[1] - ret[p].scores[2] <= 10

\* C7 amended: with the corpus loaded and indexed by LoadKnowledgeBase,
\* Search("great", 5) returns no document: "great" occurs in both documents,
\* its idf weight is ln(2/2) = 0 and the query encodes to the zero vector
C7_GreatReturnsNothing ==
    \A p \in Procs :
        (Searched(p, QueryGreat) /\ KbCorpusLoaded) =>
            /\ ret[p].docs = <<>>
            /\ MapGet(idf, QueryGreat) = 0

C7_Witness ==
    /\ Searched(SeqProc, QueryGreat)
    /\ KbCorpusLoaded
    /\ ret[SeqProc].docs = <<>>
    /\ QueryGreat \in DOMAIN vocabulary

\* C8: with the corpus loaded, Search("cats", 5) returns exactly one
\* document, a.md
C8_CatsReturnsOnlyA ==
    \A p \in Procs :
        (Searched(p, QueryCats) /\ KbCorpusLoaded) =>
            /\ Len(ret[p].docs) = 1
            /\ ret[p].docs[1].ID = IdA
            /\ ret[p].docs[1].FilePath = PathA

C8_Witness ==
    /\ Searched(SeqProc, QueryCats)
    /\ KbCorpusLoaded
    /\ Len(ret[SeqProc].docs) = 1
    /\ ret[SeqProc].scores[1] > Threshold

WalkedStep(p) == pc[p] = "walk" /\ pc'[p] # "walk" /\ ret'[p].err # ErrWalk

SuffixMd  == <<".", "m", "d">>
SuffixTxt == <<".", "t", "x", "t">>

\* C10: every .md and every .txt file of the directory is a loaded document
\* after the walk
C10_MdAndTxtLoaded ==
    [][\A p \in Procs :
          WalkedStep(p) =>
              \A path \in DOMAIN files :
                  (/\ HasPrefix(path, op[p].dir \o <<"/">>)
                   /\ (HasSuffix(path, SuffixMd) \/ HasSuffix(path, SuffixTxt)))
                  => \E id \in DOMAIN documents' : documents'[id].FilePath = path]_vars

\* C1: the document vectors a search scores were stored by the load call
\* whose vocabulary the query was encoded with
C1_SearchUsesOneGeneration ==
    \A p \in Procs :
        ret[p].name = "VectorSearch" => ret[p].vecGens \subseteq {ret[p].qGen}

\* C2: while a goroutine holds the read lock, vocabulary, idf table and
\* vectors belong to the documents it can see
C2_ReadersSeeOneGeneration ==
    rwReaders # {} => IndexConsistent

\* C5: when two load calls have returned, documents, vocabulary, idf table
\* and vectors are the output of the pipeline of one of them
C5_LoadsDoNotMix ==
    (\A p \in Procs : Returned(p, "Load", ErrNil)) =>
        \E p \in Procs :
            /\ documents = WalkDir(files, op[p].dir, op[p].dir)
            /\ IndexConsistent

\* goroutine p is inside a call and its next step can be taken: the program
\* runs, a writer finds the writer's place free and the readers gone, a
\* blocked reader has been admitted
CanRun(p) ==
    /\ ~crashed
    /\ pc[p] \notin {"idle", "rwait"}
    /\ pc[p] = "lock" => rwWriter = None
    /\ pc[p] = "walk" => rwReaders = {}

\* C6: no reachable state is a deadlock: while calls are in progress one of
\* them can take its next step, so that under fair scheduling every load
\* call returns and every waiting reader gets the read lock
C6_CallsCanProceed ==
    (\E p \in Procs : pc[p] # "idle") => (\E p \in Procs : CanRun(p))

(***************************************************************************)
(* Properties of ranking, lookup and loading.                              *)
(***************************************************************************)
\* the IDs of the documents a call of p returned
ReturnedIds(p) == {ret[p].docs[i].ID : i \in 1..Len(ret[p].docs)}

\* the documents whose score for the query of p's call passes the threshold
Passing(p) == {id \in Scored : ScoreOf(op[p].query, id) > Threshold}

PathE1 == EdgeDir \o <<"/","e","1",".","m","d">>
IdE1   == <<"e","1">>

\* C11: every document VectorSearch returns has a score above the threshold
\* 0.1, and a document whose score equals the threshold is not returned
C11_ThresholdExclusive ==
    \A p \in Procs :
        Returned(p, "VectorSearch", ErrNil) =>
            /\ \A i \in 1..Len(ret[p].scores) : ret[p].scores[i] > Threshold
            /\ \A id \in Scored :
                   ScoreOf(op[p].query, id) = Threshold => id \notin ReturnedIds(p)

\* "edge" is loaded and indexed, e1.md scores exactly 0.1 for "cats", and
\* VectorSearch("cats", 5) has returned without it
C11_Witness ==
    /\ Returned(SeqProc, "VectorSearch", ErrNil)
    /\ op[SeqProc].query = QueryCats
    /\ op[SeqProc].limit = 5
    /\ IdE1 \in DOMAIN documents
    /\ documents[IdE1].FilePath = PathE1
    /\ IndexConsistent
    /\ ScoreOf(QueryCats, IdE1) = Threshold
    /\ IdE1 \notin ReturnedIds(SeqProc)

\* C12: the results of VectorSearch are in non-increasing score order, each
\* document at most once with its score; their number is the smaller of
\* limit and the number of documents that pass the threshold; no document
\* left out scores higher than one returned
C12_SortedThenLimited ==
    \A p \in Procs :
        Returned(p, "VectorSearch", ErrNil) =>
            LET n       == Len(ret[p].docs)
                passing == Passing(p)
                m       == Cardinality(passing)
                left    == passing \ ReturnedIds(p)
            IN  /\ \A i \in 1..n : \A j \in 1..n : i < j => ret[p].scores[i] >= ret[p].scores[j]
                /\ \A i \in 1..n : \A j \in 1..n : i # j => ret[p].docs[i].ID # ret[p].docs[j].ID
                /\ n = IF m > op[p].limit THEN op[p].limit ELSE m
                /\ \A i \in 1..n : /\ ret[p].docs[i].ID \in passing
                                   /\ ret[p].scores[i] = ScoreOf(op[p].query, ret[p].docs[i].ID)
                /\ \A id \in left :
                       \A i \in 1..n : ScoreOf(op[p].query, id) <= ret[p].scores[i]

\* two documents pass the threshold with different scores and
\* VectorSearch(query, 1) has returned the one that scores higher
C12_Witness ==
    /\ Returned(SeqProc, "VectorSearch", ErrNil)
    /\ op[SeqProc].limit = 1
    /\ Len(ret[SeqProc].docs) = 1
    /\ Cardinality(Passing(SeqProc)) = 2
    /\ \E id \in Passing(SeqProc) : ScoreOf(op[SeqProc].query, id) < ret[SeqProc].scores[1]

\* C13: the empty query has no tokens, its vector is all zeros, and
\* VectorSearch returns no document for it, whatever the corpus
C13_EmptyQueryNoResults ==
    \A p \in Procs :
        (Returned(p, "VectorSearch", ErrNil) /\ op[p].query = <<>>) =>
            /\ tokenize(op[p].query) = <<>>
            /\ \A v \in Embeddings(vocabulary, idf, op[p].query) :
                   \A i \in 1..Len(v) : v[i] = 0
            /\ ret[p].docs = <<>>

\* VectorSearch("", 5) has returned nothing from an indexed corpus in which
\* another query finds a document
C13_Witness ==
    /\ Returned(SeqProc, "VectorSearch", ErrNil)
    /\ op[SeqProc].query = <<>>
    /\ op[SeqProc].limit = 5
    /\ ret[SeqProc].docs = <<>>
    /\ KbCorpusLoaded
    /\ ScoreOf(QueryCats, IdA) > Threshold

\* C14: GetDocument(id) returns the stored document and a nil error when id
\* is a key of the documents, the not-found error and no document when it is
\* not
C14_GetDocumentFoundOrError ==
    \A p \in Procs :
        (pc[p] = "idle" /\ ret[p].name = "GetDocument") =>
            IF op[p].id \in DOMAIN documents
            THEN /\ ret[p].err = ErrNil
                 /\ ret[p].docs = <<documents[op[p].id]>>
                 /\ ret[p].docs[1].ID = op[p].id
            ELSE /\ ret[p].err = ErrNotFound
                 /\ ret[p].docs = <<>>

\* documents are loaded and GetDocument("z") has returned the error
C14_Witness ==
    /\ Returned(SeqProc, "GetDocument", ErrNotFound)
    /\ op[SeqProc].id \notin DOMAIN documents
    /\ IdA \in DOMAIN documents
    /\ ret[SeqProc].docs = <<>>

\* the files below dir that the walk recognises and loadDocument can read
Loadable(fs, dir) ==
    {path \in DOMAIN fs : /\ HasPrefix(path, dir \o <<"/">>)
                          /\ IsKnowledgeFile(path)
                          /\ fs[path].readable}

\* the recognised files below dir that loadDocument cannot read
Unreadable(fs, dir) ==
    {path \in DOMAIN fs : /\ HasPrefix(path, dir \o <<"/">>)
                          /\ IsKnowledgeFile(path)
                          /\ ~fs[path].readable}

\* C16: when the walk of a load meets a file that cannot be read, the load
\* does not return an error, and the documents after the walk are exactly
\* the other recognised files, each with its content
C16_UnreadableFileSkipped ==
    [][\A p \in Procs :
          (/\ pc[p] = "walk"
           /\ pc'[p] # "walk"
           /\ ~WalkFails(op[p].dir)
           /\ Unreadable(files, op[p].dir) # {})
          => /\ ret'[p].err \notin {ErrMkdir, ErrWalk}
             /\ pc'[p] = "idle" => ret'[p].err = ErrNil
             /\ {documents'[id].FilePath : id \in DOMAIN documents'} = Loadable(files, op[p].dir)
             /\ Cardinality(DOMAIN documents') = Cardinality(Loadable(files, op[p].dir))
             /\ \A id \in DOMAIN documents' :
                    documents'[id].Content = files[documents'[id].FilePath].content]_vars

\* a.md cannot be read, LoadKnowledgeBase("kb") has returned nil and the
\* documents are b.md alone
C16_Witness ==
    /\ Returned(SeqProc, "Load", ErrNil)
    /\ op[SeqProc].dir = KbDir
    /\ PathA \in Unreadable(files, KbDir)
    /\ DOMAIN documents = {IdB}
    /\ documents[IdB].FilePath = PathB

\* C17: with no document indexed, before the first load or after a
\* successful load or refresh that found no file, the vocabulary and the idf
\* table are empty; a search of either kind that finds no document indexed
\* returns an empty list and a nil error; the load of an empty directory
\* returns nil
C17_EmptyCorpus ==
    /\ loads = 0 => (vocabulary = EmptyMap /\ idf = EmptyMap)
    /\ \A p \in Procs :
           /\ ((Returned(p, "Load", ErrNil) \/ Returned(p, "Refresh", ErrNil))
                  /\ documents = EmptyMap)
              => (vocabulary = EmptyMap /\ idf = EmptyMap)
           /\ (/\ pc[p] = "idle"
               /\ ret[p].name \in {"VectorSearch", "SearchDocuments"}
               /\ op[p].limit >= 0
               /\ documents = EmptyMap)
              => (ret[p].err = ErrNil /\ ret[p].docs = <<>>)
           /\ (pc[p] = "idle" /\ ret[p].name = "Load" /\ op[p].dir = NewDir)
              => ret[p].err = ErrNil

(***************************************************************************)
(* Properties of the functions called on their own.                        *)
(***************************************************************************)
\* C15: document 1 is document 2 with one more occurrence of the query
\* word, both in one corpus: the score of document 1 for the query is not
\* below the score of document 2
C15_ExtraOccurrenceNotLower ==
    (out.done /\ arg.fn = "scores") => out.scores[1] >= out.scores[2]

\* the scores are out, both above 0, that of the document with the extra
\* occurrence above the other
C15_Witness ==
    /\ out.done
    /\ arg.fn = "scores"
    /\ out.scores[2] > 0
    /\ out.scores[1] > out.scores[2]

\* every entry of vector a is 0
ZeroVector(a) == \A i \in 1..Len(a) : a[i] = 0

\* C18: CosineSimilarity(a, b) is 0 when a or b has norm 0
C18_ZeroNormScoresZero ==
    (out.done /\ arg.fn = "CosineSimilarity" /\ (ZeroVector(arg.a) \/ ZeroVector(arg.b)))
        => out.score = 0

\* CosineSimilarity has returned 0 for a zero vector and a vector of the
\* same length that is not zero
C18_Witness ==
    /\ out.done
    /\ arg.fn = "CosineSimilarity"
    /\ Len(arg.a) = MaxDim
    /\ Len(arg.b) = MaxDim
    /\ ZeroVector(arg.a)
    /\ ~ZeroVector(arg.b)
    /\ out.score = 0

\* the sections the heading rule gives for lines from line i on: a line
\* whose trimmed text begins with '#' opens a section, Level the length of
\* the run of '#', Title the trimmed rest; every other line goes to the
\* section that is open (Content here is the lines one after another,
\* without separators)
RECURSIVE HeadingSections(_, _, _, _)
HeadingSections(lines, i, sections, cur) ==
    IF i > Len(lines) THEN sections \o cur
    ELSE LET trimmed == TrimSpace(lines[i])
         IN  IF HasPrefix(trimmed, <<"#">>)
             THEN LET level == HashRun(trimmed, 1)
                  IN  HeadingSections(lines, i + 1, sections \o cur,
                          <<[Title |-> TrimSpace(SubSeq(trimmed, level + 1, Len(trimmed))),
                             Level |-> level, Content |-> <<>>]>>)
             ELSE IF cur # <<>>
             THEN HeadingSections(lines, i + 1, sections,
                      <<[cur[1] EXCEPT !.Content = cur[1].Content \o lines[i]]>>)
             ELSE HeadingSections(lines, i + 1, sections, cur)

\* C20: parseDocument opens a section for every line whose trimmed text
\* begins with '#', whatever follows the run of '#', with Level the number
\* of '#' and Title the trimmed rest, and appends the lines that follow, in
\* order, to that section
C20_EveryHeadingOpensSection ==
    (out.done /\ arg.fn = "parseDocument") =>
        [i \in 1..Len(out.sections) |->
            [out.sections[i] EXCEPT
                !.Content = SelectSeq(out.sections[i].Content, LAMBDA c : c # "\n")]]
        = HeadingSections(Split(arg.text, "\n"), 1, <<>>, <<>>)

\* C19: after a load the indices of the vocabulary are 0..n-1, each used
\* once; and a build over the documents an earlier build was made from gives
\* the same index to every token
C19_VocabularyStable ==
    \A p \in Procs :
        /\ Returned(p, "Load", ErrNil) =>
               /\ {vocabulary[t] : t \in DOMAIN vocabulary}
                      = 0..(Cardinality(DOMAIN vocabulary) - 1)
               /\ \A t \in DOMAIN vocabulary : \A u \in DOMAIN vocabulary :
                      vocabulary[t] = vocabulary[u] => t = u
        /\ (/\ pc[p] = "bv_reset"
            /\ genVocab # 0
            /\ \E order \in Orders({loc[p].docs[i] : i \in 1..Len(loc[p].docs)}) :
                   BuildVocabulary(order).vocabulary = vocabulary)
           => BuildVocabulary(loc[p].docs).vocabulary = vocabulary
(***************************************************************************)
(* Properties of the keyword search and of the limits.                     *)
(***************************************************************************)
\* the documents a call of p returned, as a set
ReturnedDocs(p) == {ret[p].docs[i] : i \in 1..Len(ret[p].docs)}

\* the loaded documents that match the query of p's call and were not
\* returned
OmittedMatches(p) ==
    {d \in MapValues(documents) \ ReturnedDocs(p) :
        KeywordScore(d, ToLower(op[p].query)) > 0}

\* C21: SearchDocuments returns only documents whose score (10 for the
\* title, 1 for each occurrence in the content, 5 for each section title)
\* is above 0, and no matching document it leaves out scores strictly
\* higher than one it returns
C21_KeywordScoreDecides ==
    \A p \in Procs :
        Returned(p, "SearchDocuments", ErrNil) =>
            /\ \A d \in ReturnedDocs(p) : KeywordScore(d, ToLower(op[p].query)) > 0
            /\ \A d \in ReturnedDocs(p) : \A o \in OmittedMatches(p) :
                   KeywordScore(o, ToLower(op[p].query)) <= KeywordScore(d, ToLower(op[p].query))

\* C28: VectorSearch and SearchDocuments end without a run-time panic and
\* return at most max(limit, 0) documents
C28_LimitRespected ==
    \A p \in Procs :
        (pc[p] = "idle" /\ ret[p].name \in {"VectorSearch", "SearchDocuments"}) =>
            /\ ret[p].err # ErrPanic
            /\ Len(ret[p].docs) <= (IF op[p].limit > 0 THEN op[p].limit ELSE 0)

(***************************************************************************)
(* Properties of the embedding.                                            *)
(***************************************************************************)
\* goroutine p takes the step of GetEmbedding and gets a vector
Encoded(p) == pc[p] = "encode" /\ pc'[p] = "rlock"

\* C22: the vector GetEmbedding returns is as long as the vocabulary is
\* large, an entry that is not 0 stands at the index of a token that occurs
\* in the text and is in the vocabulary, and the step leaves the vocabulary,
\* the idf table and the document vectors as they were
C22_EncodeFrame ==
    [][\A p \in Procs :
          Encoded(p) =>
              LET tokens == tokenize(op[p].query)
                  vector == loc'[p].qv
              IN  /\ Len(vector) = Cardinality(DOMAIN vocabulary)
                  /\ \A i \in 1..Len(vector) :
                         vector[i] # 0 =>
                             \E k \in 1..Len(tokens) :
                                 /\ tokens[k] \in DOMAIN vocabulary
                                 /\ vocabulary[tokens[k]] = i - 1
                  /\ vocabulary' = vocabulary
                  /\ idf' = idf
                  /\ docVectors' = docVectors]_vars

\* "cats" has been encoded against the index of a.md and b.md: one entry
\* of the six is not 0, the one at the index of "cats"
C22_Witness ==
    /\ pc[SeqProc] = "rlock"
    /\ op[SeqProc].name = "VectorSearch"
    /\ op[SeqProc].query = QueryCats
    /\ KbCorpusLoaded
    /\ Len(loc[SeqProc].qv) = 6
    /\ {i \in 1..6 : loc[SeqProc].qv[i] # 0} = {vocabulary[QueryCats] + 1}

\* the tokens of text as a set
TokenSet(text) == LET tokens == tokenize(text) IN {tokens[k] : k \in 1..Len(tokens)}

\* the number of documents of docs whose tokens hold token
DocFrequency(docs, token) ==
    Cardinality({i \in 1..Len(docs) : token \in TokenSet(docs[i].Content)})

\* C23: when the loop of BuildVocabulary over the documents is done, df
\* holds for every token of the vocabulary the number of documents with
\* that token, between 1 and totalDocs; when BuildVocabulary is done the
\* idf table is defined for the tokens of the vocabulary and no others,
\* no weight is below 0, and a weight is 0 for the tokens of every
\* document and for no others
C23_DocumentFrequency ==
    \A p \in Procs :
        LET docs == loc[p].docs
            df   == loc[p].df
        IN  /\ pc[p] \in {"bv_idf", "vec_reset"} =>
                   /\ DOMAIN df = DOMAIN vocabulary
                   /\ \A t \in DOMAIN vocabulary :
                          /\ df[t] = DocFrequency(docs, t)
                          /\ 1 <= df[t]
                          /\ df[t] <= Len(docs)
            /\ pc[p] = "vec_reset" =>
                   /\ DOMAIN idf = DOMAIN vocabulary
                   /\ \A t \in DOMAIN vocabulary :
                          /\ idf[t] >= 0
                          /\ idf[t] = 0 <=> df[t] = Len(docs)

\* BuildVocabulary is done for "edge": "dogs", nine times in e1.md, has
\* the document frequency 1 and a weight above 0, "the", in both
\* documents, has the document frequency 2 and the weight 0
C23_Witness ==
    /\ pc[SeqProc] = "vec_reset"
    /\ op[SeqProc].dir = EdgeDir
    /\ Len(loc[SeqProc].docs) = 2
    /\ loc[SeqProc].df[QueryDogs] = 1
    /\ idf[QueryDogs] > 0
    /\ loc[SeqProc].df[<<"t","h","e">>] = 2
    /\ idf[<<"t","h","e">>] = 0

(***************************************************************************)
(* Properties of the tokenizer.                                            *)
(***************************************************************************)
\* the characters that end a word: the replaced ones and white space
Separators == Punctuation \cup SpaceChars

\* the words of text: the maximal runs <<i, j>> without a separator
WordRuns(text) ==
    {r \in (1..Len(text)) \X (1..Len(text)) :
        /\ r[1] <= r[2]
        /\ \A k \in r[1]..r[2] : text[k] \notin Separators
        /\ r[1] = 1 \/ text[r[1] - 1] \in Separators
        /\ r[2] = Len(text) \/ text[r[2] + 1] \in Separators}

\* the words longer than 2 that are not made of digits only
KeptRuns(text) ==
    {r \in WordRuns(text) :
        /\ r[2] - r[1] + 1 > 2
        /\ \E k \in r[1]..r[2] : text[k] \notin Digits}

\* C24: every token of tokenize is in lower case, holds no separator, is
\* longer than 2 and not made of digits only; the tokens are the words of
\* the text that meet these conditions, lowercased, all of them and in the
\* order of the text
C24_TokenizeFilter ==
    (out.done /\ arg.fn = "tokenize") =>
        LET text   == arg.text
            tokens == out.tokens
            kept   == KeptRuns(text)
        IN  /\ \A k \in 1..Len(tokens) :
                   /\ \A i \in 1..Len(tokens[k]) :
                          /\ tokens[k][i] \notin DOMAIN LowerOf
                          /\ tokens[k][i] \notin Separators
                   /\ Len(tokens[k]) > 2
                   /\ \E i \in 1..Len(tokens[k]) : tokens[k][i] \notin Digits
            /\ Len(tokens) = Cardinality(kept)
            /\ \A r \in kept :
                   tokens[1 + Cardinality({q \in kept : q[1] < r[1]})]
                       = ToLower(SubSeq(text, r[1], r[2]))

\* "777 nap_7b7 Cats" has been tokenized: the number is dropped, the
\* second piece gives two tokens, the last is lowercased
C24_Witness ==
    /\ out.done
    /\ arg.fn = "tokenize"
    /\ arg.text = <<"7","7","7"," ","n","a","p","_","7","b","7"," ","C","a","t","s">>
    /\ out.tokens = <<<<"n","a","p">>, <<"7","b","7">>, <<"c","a","t","s">>>>

(***************************************************************************)
(* Properties of the document IDs.                                         *)
(***************************************************************************)
\* C27: after the walk of a directory whose files can all be read, there
\* are as many documents as there are files ending in .md
C27_OneDocumentPerFile ==
    (out.done /\ arg.fn = "LoadKnowledgeBase") =>
        Cardinality(out.ids)
            = Cardinality({i \in 1..Len(arg.docs) : IsKnowledgeFile(arg.docs[i])})

(***************************************************************************)
(* Properties of GetResponse.                                              *)
(***************************************************************************)
\* C25: an attempt that ended with the error of a 4xx status is the last
\* attempt of the call: the call has returned, without a wait
C25_ClientErrorNotRetried ==
    \A i \in 1..Len(outcomes) :
        outcomes[i] = "client error" => (i = Len(outcomes) /\ grPc = "done")

CfgCanRun(g) ==
    \/ cfgPc[g] = "outer" /\ muWriter = None
    \/ cfgPc[g] \in {"inner", "notify", "write"}
    \/ cfgPc[g] = "drain" /\ muReaders = 0

\* C29: while a goroutine is inside notifyConfigChange, some goroutine
\* that is inside a call can take its next step, so that under fair
\* scheduling notifyConfigChange returns
C29_NotifyCompletes ==
    (\E g \in Notifiers : cfgPc[g] # "idle") =>
        (\E g \in Notifiers \cup Registrars : CfgCanRun(g))

(***************************************************************************)
(* Properties of the response cache.                                       *)
(***************************************************************************)
\* C30: the cache holds at most max_size entries
C30_CacheWithinMaxSize == Cardinality(DOMAIN items) <= CacheMaxSize

====
